---- MODULE Spec2Model ----
(***************************************************************************)
(* Contacts Manager API (src/contacts_api.py): five HTTP handlers over a   *)
(* CSV file.  Every handler loads the whole file (retrieve_contacts),      *)
(* works on the loaded list and, when it mutates, rewrites the whole file  *)
(* (save_contacts).                                                        *)
(*                                                                         *)
(* A text is a sequence of one-character strings.  The file is the         *)
(* sequence of characters csv.DictWriter wrote; loading runs the csv       *)
(* reader's state machine over those characters.                           *)
(***************************************************************************)
EXTENDS Integers, Sequences, FiniteSets, TLC

VARIABLES
    exists,    \* Path(CONTACTS_FILE).exists()
    file,      \* the characters of contacts.csv
    req,       \* req[p]: the request p is serving
    pc,        \* pc[p]: where request p stands in its handler
    contacts,  \* contacts[p]: the handler's local list `contacts`
    resp,      \* resp[p]: the JSONResponse p returned
    saved,     \* the last call of save_contacts: who called, and the list it was given
    assigned   \* the ids create_contact computed, in the order they were computed

vars == <<exists, file, req, pc, contacts, resp, saved, assigned>>

(***************************************************************************)
(* Bounds of the model.                                                    *)
(***************************************************************************)
\* the number of create requests that are sent
MaxCreates == 2
\* the ids a get or an update asks for are drawn from 1..MaxId
MaxId == 2

(***************************************************************************)
(* Texts.                                                                  *)
(***************************************************************************)
\* Python's None: no text holds an element longer than one character
None == <<"None">>

CR == "\r"
LF == "\n"
COMMA == ","
QUOTE == "\""
\* the end-of-line mark the reader feeds itself after each line
EOL == "EOL"

Digits == <<"0", "1", "2", "3", "4", "5", "6", "7", "8", "9">>
UpperCase == <<"A", "B", "C", "D", "E", "F", "G", "H", "I", "J", "K", "L", "M",
               "N", "O", "P", "Q", "R", "S", "T", "U", "V", "W", "X", "Y", "Z">>
LowerCase == <<"a", "b", "c", "d", "e", "f", "g", "h", "i", "j", "k", "l", "m",
               "n", "o", "p", "q", "r", "s", "t", "u", "v", "w", "x", "y", "z">>

\* str.lower() on one character
LowerChar(c) ==
    IF \E i \in 1..Len(UpperCase) : UpperCase[i] = c
    THEN LowerCase[CHOOSE i \in 1..Len(UpperCase) : UpperCase[i] = c]
    ELSE c

\* str.lower()
Lower(t) == [i \in 1..Len(t) |-> LowerChar(t[i])]

\* Python's `q in t` on two strings
Contains(q, t) ==
    \E k \in 0..(Len(t) - Len(q)) : \A i \in 1..Len(q) : t[k + i] = q[i]

\* str(n) for an int n >= 0
RECURSIVE IntToText(_)
IntToText(n) ==
    IF n < 10 THEN <<Digits[n + 1]>>
    ELSE Append(IntToText(n \div 10), Digits[(n % 10) + 1])

IsDigit(c) == \E i \in 1..10 : Digits[i] = c
DigitValue(c) == (CHOOSE i \in 1..10 : Digits[i] = c) - 1

\* whether int(t) returns: t is a text of decimal digits (None and "" raise)
IsIntText(t) ==
    /\ t # None
    /\ Len(t) > 0
    /\ \A i \in 1..Len(t) : IsDigit(t[i])

\* int(t) for a text of decimal digits
RECURSIVE TextToInt(_)
TextToInt(t) ==
    IF Len(t) = 0 THEN 0
    ELSE 10 * TextToInt(SubSeq(t, 1, Len(t) - 1)) + DigitValue(t[Len(t)])

(***************************************************************************)
(* csv.DictWriter, as save_contacts uses it (dialect excel: delimiter ",", *)
(* quotechar '"', doublequote, QUOTE_MINIMAL, lineterminator "\r\n").      *)
(***************************************************************************)
header_names == << <<"i", "d">>, <<"n", "a", "m", "e">>,
                   <<"e", "m", "a", "i", "l">>, <<"p", "h", "o", "n", "e">> >>

\* the writer's text of one value: None is written as the empty text
FieldText(v) == IF v = None THEN <<>> ELSE v

\* QUOTE_MINIMAL: a field is quoted when it holds the delimiter, the quote
\* character or a character of the line terminator
NeedsQuote(t) == \E i \in 1..Len(t) : t[i] \in {COMMA, QUOTE, CR, LF}

RECURSIVE DoubleQuotes(_)
DoubleQuotes(t) ==
    IF Len(t) = 0 THEN <<>>
    ELSE (IF Head(t) = QUOTE THEN <<QUOTE, QUOTE>> ELSE <<Head(t)>>)
         \o DoubleQuotes(Tail(t))

WriteField(t) ==
    IF NeedsQuote(t) THEN <<QUOTE>> \o DoubleQuotes(t) \o <<QUOTE>> ELSE t

\* writer.writerow on a list of texts
RECURSIVE JoinFields(_)
JoinFields(fields) ==
    IF Len(fields) = 0 THEN <<>>
    ELSE IF Len(fields) = 1 THEN WriteField(fields[1])
    ELSE WriteField(fields[1]) \o <<COMMA>> \o JoinFields(Tail(fields))

WriteRow(fields) == JoinFields(fields) \o <<CR, LF>>

\* DictWriter._dict_to_list: the contact's values in header order
ContactFields(c) ==
    <<IntToText(c.id), FieldText(c.name), FieldText(c.email), FieldText(c.phone)>>

RECURSIVE WriteRows(_)
WriteRows(cs) ==
    IF Len(cs) = 0 THEN <<>>
    ELSE WriteRow(ContactFields(Head(cs))) \o WriteRows(Tail(cs))

\* save_contacts: the characters the file holds afterwards
save_contacts(cs) == WriteRow(header_names) \o WriteRows(cs)

(***************************************************************************)
(* csv.DictReader, as retrieve_contacts uses it.  The file object hands    *)
(* the reader one line at a time (newline='': a line ends after "\n",      *)
(* after "\r\n", after a lone "\r", or at the end of the file); the reader *)
(* runs every character of the line, then the end-of-line mark, through    *)
(* its state machine.                                                      *)
(***************************************************************************)
\* whether a line of the file ends with its character i
EndsLine(t, i) ==
    \/ t[i] = LF
    \/ t[i] = CR /\ ~(i < Len(t) /\ t[i + 1] = LF)
    \/ i = Len(t)

\* the file's lines, each with its line ending
Lines(t) ==
    LET ends == {i \in 1..Len(t) : EndsLine(t, i)}
        nth(k) == CHOOSE e \in ends : Cardinality({x \in ends : x <= e}) = k
    IN  [k \in 1..Cardinality(ends) |->
            SubSeq(t, IF k = 1 THEN 1 ELSE nth(k - 1) + 1, nth(k))]

\* the reader before the first character of a row
ReaderStart(rows) ==
    [state |-> "START_RECORD", field |-> <<>>, fields |-> <<>>, rows |-> rows,
     error |-> FALSE]

SaveField(s) == [s EXCEPT !.fields = Append(s.fields, s.field), !.field = <<>>]
AddChar(s, c) == [s EXCEPT !.field = Append(s.field, c)]
AfterLineEnd(c) == IF c = EOL THEN "START_RECORD" ELSE "EAT_CRNL"

\* parse_process_char in START_FIELD (START_RECORD falls through to it)
StartField(s, c) ==
    IF c \in {LF, CR, EOL} THEN [SaveField(s) EXCEPT !.state = AfterLineEnd(c)]
    ELSE IF c = QUOTE THEN [s EXCEPT !.state = "IN_QUOTED_FIELD"]
    ELSE IF c = COMMA THEN [SaveField(s) EXCEPT !.state = "START_FIELD"]
    ELSE [AddChar(s, c) EXCEPT !.state = "IN_FIELD"]

\* parse_process_char: one character (or the end-of-line mark) through the
\* reader's state machine
ProcessChar(s, c) ==
    CASE s.state = "START_RECORD" ->
            IF c = EOL THEN s
            ELSE IF c \in {LF, CR} THEN [s EXCEPT !.state = "EAT_CRNL"]
            ELSE StartField(s, c)
      [] s.state = "START_FIELD" -> StartField(s, c)
      [] s.state = "IN_FIELD" ->
            IF c \in {LF, CR, EOL} THEN [SaveField(s) EXCEPT !.state = AfterLineEnd(c)]
            ELSE IF c = COMMA THEN [SaveField(s) EXCEPT !.state = "START_FIELD"]
            ELSE AddChar(s, c)
      [] s.state = "IN_QUOTED_FIELD" ->
            IF c = EOL THEN s
            ELSE IF c = QUOTE THEN [s EXCEPT !.state = "QUOTE_IN_QUOTED_FIELD"]
            ELSE AddChar(s, c)
      [] s.state = "QUOTE_IN_QUOTED_FIELD" ->
            IF c = QUOTE THEN [AddChar(s, c) EXCEPT !.state = "IN_QUOTED_FIELD"]
            ELSE IF c = COMMA THEN [SaveField(s) EXCEPT !.state = "START_FIELD"]
            ELSE IF c \in {LF, CR, EOL}
                 THEN [SaveField(s) EXCEPT !.state = AfterLineEnd(c)]
            ELSE [AddChar(s, c) EXCEPT !.state = "IN_FIELD"]
      [] s.state = "EAT_CRNL" ->
            IF c \in {LF, CR} THEN s
            ELSE IF c = EOL THEN [s EXCEPT !.state = "START_RECORD"]
            ELSE [s EXCEPT !.error = TRUE]

\* the characters of one line through the state machine, from character i on
RECURSIVE ReadLine(_, _, _)
ReadLine(line, i, s) ==
    IF i > Len(line) THEN s ELSE ReadLine(line, i + 1, ProcessChar(s, line[i]))

\* the reader's __next__, repeated to the end of the file: after each line the
\* reader is fed the end-of-line mark, and returns the row when that leaves it
\* in START_RECORD; at the end of the file an unfinished quoted field is saved
\* and its row returned
RECURSIVE ReadRows(_, _, _)
ReadRows(lines, k, s) ==
    IF k > Len(lines)
    THEN IF s.state = "IN_QUOTED_FIELD" \/ Len(s.field) # 0
         THEN [s EXCEPT !.rows = Append(s.rows, Append(s.fields, s.field))]
         ELSE s
    ELSE LET n == ProcessChar(ReadLine(lines[k], 1, s), EOL)
         IN  IF n.state = "START_RECORD" /\ ~n.error
             THEN ReadRows(lines, k + 1, ReaderStart(Append(n.rows, n.fields)))
             ELSE ReadRows(lines, k + 1, n)

\* csv.reader over the whole file
csv_reader(t) == ReadRows(Lines(t), 1, ReaderStart(<<>>))

\* row.get(key) on the dict DictReader builds: dict(zip(fieldnames, row)),
\* the keys beyond the row set to None
RowGet(fieldnames, row, key) ==
    LET at == {i \in 1..Len(fieldnames) : fieldnames[i] = key}
        last == CHOOSE i \in at : \A j \in at : j <= i
    IN  IF at = {} THEN None
        ELSE IF last > Len(row) THEN None
        ELSE row[last]

\* DictReader: the first row is the field names, empty rows are skipped
DictRows(rows) ==
    IF Len(rows) = 0 THEN <<>>
    ELSE LET fieldnames == rows[1]
             data == SelectSeq(Tail(rows), LAMBDA r : r # <<>>)
         IN  [i \in 1..Len(data) |->
                 [id |-> RowGet(fieldnames, data[i], header_names[1]),
                  name |-> RowGet(fieldnames, data[i], header_names[2]),
                  email |-> RowGet(fieldnames, data[i], header_names[3]),
                  phone |-> RowGet(fieldnames, data[i], header_names[4])]]

\* retrieve_contacts: whether it returns (the reader raises no error and
\* int() accepts every row's id) and the list of contacts it returns, in file
\* order; a missing file is the empty list
retrieve_contacts(e, t) ==
    IF ~e THEN [ok |-> TRUE, contacts |-> <<>>]
    ELSE LET r == csv_reader(t)
             rows == DictRows(r.rows)
             ok == ~r.error /\ \A i \in 1..Len(rows) : IsIntText(rows[i].id)
         IN  [ok |-> ok,
              contacts |-> IF ok
                           THEN [i \in 1..Len(rows) |->
                                    [rows[i] EXCEPT !.id = TextToInt(rows[i].id)]]
                           ELSE <<>>]

(***************************************************************************)
(* Requests.  The Contact model validates a body before a handler runs:    *)
(* name of 2 to 50 characters, phone of 10 to 15, email an address or      *)
(* None.                                                                   *)
(***************************************************************************)
Phone1 == <<"5", "5", "5", "1", "2", "3", "4", "5", "6", "7">>
Phone2 == <<"5", "5", "5", "9", "8", "7", "6", "5", "4", "3">>

Ann == [name |-> <<"A", "n", "n">>, email |-> None, phone |-> Phone1]
Bob == [name |-> <<"B", "o", "b">>, email |-> None, phone |-> Phone2]
\* a name the writer has to quote, and an email with upper-case letters
Zed == [name |-> <<"Z", ",", "\"", "\n">>,
        email |-> <<"b", "@", "A", "N", ".", "i", "o">>, phone |-> Phone1]

\* the bodies a create or an update is sent
Payloads == {Ann, Bob, Zed}

\* the ids a get or an update is sent
Ids == 1..MaxId

\* the query strings a search is sent
Queries == {<<>>, <<"a", "n">>, <<"A", "N">>, <<"q">>}

NoContact == [name |-> None, email |-> None, phone |-> None]
Request(op, id, contact, query) ==
    [op |-> op, id |-> id, contact |-> contact, query |-> query]
NoRequest == Request("none", 0, NoContact, <<>>)

\* the two requests in flight
Proc == {1, 2}

(***************************************************************************)
(* The handlers, each as what it does with the list retrieve_contacts gave *)
(* it: the list it ends with, whether it calls save_contacts, and the      *)
(* JSONResponse (status_code and content) it returns.                      *)
(***************************************************************************)
Outcome(cs, save, status, body) ==
    [contacts |-> cs, save |-> save, status |-> status, body |-> body]

\* max([contact['id'] for contact in contacts], default=0)
MaxIdOf(cs) ==
    IF Len(cs) = 0 THEN 0
    ELSE LET ids == {cs[i].id : i \in 1..Len(cs)}
         IN  CHOOSE m \in ids : \A n \in ids : n <= m

\* contact_id computed as len(contacts) + 1
NextIdByCount(cs) == Len(cs) + 1

\* contact_id computed without the + 1
NextIdNoIncrement(cs) == MaxIdOf(cs)

\* contact_id of create_contact
NextId(cs) == MaxIdOf(cs) + 1

\* the search for the id keeping the last match
FindContactLast(cs, id) ==
    LET at == {i \in 1..Len(cs) : cs[i].id = id}
    IN  IF at = {} THEN 0 ELSE CHOOSE i \in at : \A j \in at : j <= i

\* the path id taken for a position in the list
FindContactByPosition(cs, id) == IF id \in 1..Len(cs) THEN id ELSE 0

\* next((contact for contact in contacts if contact['id'] == id), None), as
\* the position of that contact; 0 stands for None
FindContact(cs, id) ==
    LET at == {i \in 1..Len(cs) : cs[i].id = id}
    IN  IF at = {} THEN 0 ELSE CHOOSE i \in at : \A j \in at : i <= j

create_contact(cs, contact) ==
    LET new_contact == [id |-> NextId(cs), name |-> contact.name,
                        email |-> contact.email, phone |-> contact.phone]
    IN  Outcome(Append(cs, new_contact), TRUE, 200,
                [code |-> 200, message |-> "Contact created successfully",
                 data |-> new_contact])

\* the not-found response of update_contact
UpdateNotFound ==
    [code |-> 404, message |-> "Contact does not exist", data |-> <<>>]

\* update_contact appending the changed record instead of changing it in place
update_contact_appending(cs, id, contact) ==
    LET at == FindContact(cs, id)
        changed == [id |-> cs[at].id, name |-> contact.name,
                    email |-> contact.email, phone |-> contact.phone]
    IN  IF at = 0 THEN Outcome(cs, FALSE, 404, UpdateNotFound)
        ELSE Outcome(Append(cs, changed), TRUE, 200,
                     [code |-> 200, message |-> "Contact updated successfully",
                      data |-> changed])

\* update_contact removing the record and putting the changed one at the end
update_contact_moving(cs, id, contact) ==
    LET at == FindContact(cs, id)
        changed == [id |-> cs[at].id, name |-> contact.name,
                    email |-> contact.email, phone |-> contact.phone]
        others == [j \in 1..(Len(cs) - 1) |-> IF j < at THEN cs[j] ELSE cs[j + 1]]
    IN  IF at = 0 THEN Outcome(cs, FALSE, 404, UpdateNotFound)
        ELSE Outcome(Append(others, changed), TRUE, 200,
                     [code |-> 200, message |-> "Contact updated successfully",
                      data |-> changed])

update_contact(cs, id, contact) ==
    LET at == FindContact(cs, id)
        updated == [cs EXCEPT ![at] = [id |-> cs[at].id, name |-> contact.name,
                                      email |-> contact.email,
                                      phone |-> contact.phone]]
    IN  IF at = 0 THEN Outcome(cs, FALSE, 404, UpdateNotFound)
        ELSE Outcome(updated, TRUE, 200,
                     [code |-> 200, message |-> "Contact updated successfully",
                      data |-> updated[at]])

\* the search looking at the name alone
MatchesNameOnly(c, q) == Contains(q, Lower(c.name))

\* query in contact['name'].lower() or query in contact['email'].lower()
Matches(c, q) == Contains(q, Lower(c.name)) \/ Contains(q, Lower(c.email))

\* the comprehension of search_contacts raises AttributeError when it calls
\* lower() on None: on a name, or on an email it gets to
SearchRaises(cs, q) ==
    \E i \in 1..Len(cs) :
        \/ cs[i].name = None
        \/ ~Contains(q, Lower(cs[i].name)) /\ cs[i].email = None

\* an exception no handler catches: the framework answers 500
InternalServerError ==
    Outcome(<<>>, FALSE, 500, [detail |-> "Internal Server Error"])

search_contacts(cs, query) ==
    LET q == Lower(query)
        matched_contacts == SelectSeq(cs, LAMBDA c : Matches(c, q))
    IN  IF SearchRaises(cs, q) THEN InternalServerError
        ELSE IF Len(matched_contacts) = 0
        THEN Outcome(cs, FALSE, 200,
                     [code |-> 200, message |-> "No match found", data |-> <<>>])
        ELSE Outcome(cs, FALSE, 200,
                     [code |-> 200, message |-> "Contacts retrieved successfully",
                      data |-> matched_contacts])

\* the not-found response of get_contact
GetNotFound == [code |-> 404, message |-> "Contact does not exist"]

get_contact(cs, id) ==
    LET at == FindContact(cs, id)
    IN  IF at = 0 THEN Outcome(cs, FALSE, 404, GetNotFound)
        ELSE Outcome(cs, FALSE, 200,
                     [code |-> 200, message |-> "Contact retrieved successfully",
                      data |-> cs[at]])

get_all_contacts(cs) ==
    IF Len(cs) = 0
    THEN Outcome(cs, FALSE, 200,
                 [code |-> 200, message |-> "No contacts found", data |-> <<>>])
    ELSE Outcome(cs, FALSE, 200,
                 [code |-> 200, message |-> "Contacts retrieved successfully",
                  data |-> cs])

\* the route table: the handler a request is given to
Handle(r, cs) ==
    CASE r.op = "create" -> create_contact(cs, r.contact)
      [] r.op = "update" -> update_contact(cs, r.id, r.contact)
      [] r.op = "search" -> search_contacts(cs, r.query)
      [] r.op = "get" -> get_contact(cs, r.id)
      [] r.op = "list" -> get_all_contacts(cs)

(***************************************************************************)
(* The state machine.                                                      *)
(***************************************************************************)
\* a contacts.csv found at start-up: two records, ids neither dense nor sorted
SeedContacts ==
    <<[id |-> 5, name |-> Bob.name, email |-> <<>>, phone |-> Bob.phone],
      [id |-> 2, name |-> Ann.name, email |-> <<>>, phone |-> Ann.phone]>>

\* a contacts.csv found at start-up in which an id is repeated
RepeatedIdContacts ==
    <<[id |-> 2, name |-> Bob.name, email |-> <<>>, phone |-> Bob.phone],
      [id |-> 2, name |-> Ann.name, email |-> <<>>, phone |-> Ann.phone]>>

NoResponse == [status |-> 0, body |-> [code |-> 0, message |-> "", data |-> <<>>]]

\* no request has been served yet
NothingServed ==
    /\ req = [p \in Proc |-> NoRequest]
    /\ pc = [p \in Proc |-> "idle"]
    /\ contacts = [p \in Proc |-> <<>>]
    /\ resp = [p \in Proc |-> NoResponse]
    /\ saved = [by |-> 0, contacts |-> <<>>]
    /\ assigned = <<>>

\* at start-up contacts.csv is missing, holds the header alone, or holds records
\* with different ids
Init ==
    /\ \/ exists = FALSE /\ file = <<>>
       \/ exists = TRUE /\ file \in {save_contacts(<<>>), save_contacts(SeedContacts)}
    /\ NothingServed

\* at start-up contacts.csv is any of the above, or a file that repeats an id
InitAnyStore ==
    /\ \/ exists = FALSE /\ file = <<>>
       \/ exists = TRUE /\ file \in {save_contacts(<<>>), save_contacts(SeedContacts),
                                      save_contacts(RepeatedIdContacts)}
    /\ NothingServed

\* what request p does once its handler has outcome h: save_contacts when the
\* handler calls it, then the response
Finish(p, r, h) ==
    /\ resp' = [resp EXCEPT ![p] = [status |-> h.status, body |-> h.body]]
    /\ IF h.save
       THEN /\ exists' = TRUE
            /\ file' = save_contacts(h.contacts)
            /\ saved' = [by |-> p, contacts |-> h.contacts]
       ELSE UNCHANGED <<exists, file, saved>>
    /\ assigned' = IF r.op = "create" /\ h.status = 200
                   THEN Append(assigned, h.body.data.id) ELSE assigned

\* a handler run from its first line to its return, with nothing in between:
\* retrieve_contacts (an exception in it is answered 500), the handler's work,
\* save_contacts, the response
Serve(r, loaded) ==
    /\ req' = [req EXCEPT ![1] = r]
    /\ \E h \in {IF loaded.ok THEN Handle(r, loaded.contacts)
                                ELSE InternalServerError} : Finish(1, r, h)
    /\ UNCHANGED <<pc, contacts>>

\* POST /api/contacts
CreateContact ==
    /\ Len(assigned) < MaxCreates
    /\ \E c \in Payloads, loaded \in {retrieve_contacts(exists, file)} :
           Serve(Request("create", 0, c, <<>>), loaded)

\* PUT /api/contacts/{id}
UpdateContact ==
    \E id \in Ids, c \in Payloads, loaded \in {retrieve_contacts(exists, file)} :
        Serve(Request("update", id, c, <<>>), loaded)

\* GET /api/contacts/search?query=
SearchContacts ==
    \E q \in Queries, loaded \in {retrieve_contacts(exists, file)} :
        Serve(Request("search", 0, NoContact, q), loaded)

\* GET /api/contacts/{id}
GetContact ==
    \E id \in Ids, loaded \in {retrieve_contacts(exists, file)} :
        Serve(Request("get", id, NoContact, <<>>), loaded)

\* GET /api/contacts
GetAllContacts ==
    \E loaded \in {retrieve_contacts(exists, file)} :
        Serve(Request("list", 0, NoContact, <<>>), loaded)

Next ==
    \/ CreateContact
    \/ UpdateContact
    \/ SearchContacts
    \/ GetContact
    \/ GetAllContacts

\* requests served one at a time
Spec == Init /\ [][Next]_vars

\* requests served one at a time, whatever file was found at start-up
AnyStoreSpec == InitAnyStore /\ [][Next]_vars

(***************************************************************************)
(* Two mutating requests in flight over the same file, each a handler that *)
(* another may overtake between its retrieve_contacts and its              *)
(* save_contacts: the code takes no lock around the two.  (The handlers    *)
(* are coroutines without an await, so one event loop runs each to its     *)
(* return; the steps below interleave when the application is served by    *)
(* more than one worker process over the same contacts.csv.)  Each read    *)
(* and each write of the file is one step.                                 *)
(***************************************************************************)
\* request p arrives and its handler runs up to the return of retrieve_contacts
BeginCreate(p) ==
    /\ pc[p] = "idle"
    /\ Len(assigned) < MaxCreates
    /\ \E loaded \in {retrieve_contacts(exists, file)} :
           /\ loaded.ok
           /\ contacts' = [contacts EXCEPT ![p] = loaded.contacts]
    /\ \E c \in Payloads : req' = [req EXCEPT ![p] = Request("create", 0, c, <<>>)]
    /\ pc' = [pc EXCEPT ![p] = "loaded"]
    /\ UNCHANGED <<exists, file, resp, saved, assigned>>

BeginUpdate(p) ==
    /\ pc[p] = "idle"
    /\ \E loaded \in {retrieve_contacts(exists, file)} :
           /\ loaded.ok
           /\ contacts' = [contacts EXCEPT ![p] = loaded.contacts]
    /\ \E id \in Ids, c \in Payloads :
           req' = [req EXCEPT ![p] = Request("update", id, c, <<>>)]
    /\ pc' = [pc EXCEPT ![p] = "loaded"]
    /\ UNCHANGED <<exists, file, resp, saved, assigned>>

\* the rest of p's handler, run on a list read again from the file
CompleteReloading(p) ==
    /\ pc[p] = "loaded"
    /\ \E h \in {Handle(req[p], retrieve_contacts(exists, file).contacts)} :
           Finish(p, req[p], h)
    /\ pc' = [pc EXCEPT ![p] = "done"]
    /\ UNCHANGED <<req, contacts>>

\* the rest of p's handler, on the list it loaded
Complete(p) ==
    /\ pc[p] = "loaded"
    /\ \E h \in {Handle(req[p], contacts[p])} : Finish(p, req[p], h)
    /\ pc' = [pc EXCEPT ![p] = "done"]
    /\ UNCHANGED <<req, contacts>>

RaceNext ==
    \/ \E p \in Proc : BeginCreate(p)
    \/ \E p \in Proc : BeginUpdate(p)
    \/ \E p \in Proc : Complete(p)

RaceSpec == Init /\ [][RaceNext]_vars

(***************************************************************************)
(* Properties.                                                             *)
(***************************************************************************)
\* the contacts the file holds
Stored == retrieve_contacts(exists, file).contacts

\* the contacts the file holds after the step
StoredAfter == retrieve_contacts(exists', file').contacts

IdsOf(cs) == {cs[i].id : i \in 1..Len(cs)}
IdsUnique(cs) == \A i, j \in 1..Len(cs) : i # j => cs[i].id # cs[j].id

\* C1: a create served on its own assigns id = max(ids in the store, default
\* 0) + 1: 1 on an empty store, and an id above every id assigned before it.
C1_CreateAssignsNextId ==
    [][req'[1].op = "create" =>
          \A before \in {Stored}, after \in {StoredAfter} :
              LET ids == IdsOf(before)
                  new == resp'[1].body.data.id
              IN  /\ resp'[1].status = 200
                  /\ ids = {} => new = 1
                  /\ ids # {} =>
                         \E m \in ids : (\A n \in ids : n <= m) /\ new = m + 1
                  /\ \A k \in 1..Len(assigned) : assigned[k] < new
                  /\ assigned' = Append(assigned, new)
                  /\ Len(after) = Len(before) + 1
                  /\ after[Len(after)].id = new]_vars

\* C1: two creates were served on a store whose ids were 5 and 2
C1_Witness ==
    /\ req[1].op = "create"
    /\ resp[1].status = 200
    /\ assigned = <<6, 7>>

\* C2: with requests served one at a time, no two records of the file have
\* the same id.
C2_IdsUnique == IdsUnique(Stored)

\* C2: creates and an update have been served and the file holds records
C2_Witness ==
    /\ req[1].op = "update"
    /\ resp[1].status = 200
    /\ Len(assigned) = MaxCreates
    /\ Len(Stored) >= 2

\* C3: loading the file after save_contacts gives the list save_contacts was
\* given: same records, same order, every field and id as it was.
C3_RoundTrip == saved.by # 0 => Stored = saved.contacts

\* C4: a get or an update for an id no stored record has is answered 404,
\* "Contact does not exist", and leaves the file as it was (a get or an update
\* either is answered so, or asks for an id some stored record has).
C4_NotFound ==
    [][req'[1].op \in {"get", "update"} =>
          \/ /\ resp'[1].status = 404
             /\ resp'[1].body.code = 404
             /\ resp'[1].body.message = "Contact does not exist"
             /\ file' = file
             /\ exists' = exists
          \/ req'[1].id \in IdsOf(Stored)]_vars

\* C4: an update was answered 404 on a store that holds records
C4_Witness ==
    /\ req[1].op = "update"
    /\ resp[1].status = 404
    /\ Len(Stored) > 0
    /\ req[1].id \notin IdsOf(Stored)

\* C5: an update served right after the same update (same id, same body) on
\* an existing id leaves the file as the first one left it.
C5_UpdateIdempotent ==
    [][(req[1].op = "update" /\ resp[1].status = 200 /\ req'[1] = req[1]) =>
          /\ file' = file
          /\ exists' = exists]_vars

\* C5: an update of an existing id has been served (the same update is enabled
\* again)
C5_Witness ==
    /\ req[1].op = "update"
    /\ resp[1].status = 200
    /\ req[1].contact.email = None
    /\ req[1].id \in IdsOf(Stored)

\* two characters equal up to the case of a letter
SameLetter(a, b) ==
    \/ a = b
    \/ \E i \in 1..Len(UpperCase) : {a, b} = {UpperCase[i], LowerCase[i]}

\* q is a case-insensitive substring of t
InsensitiveSubstring(q, t) ==
    \E k \in 0..(Len(t) - Len(q)) : \A i \in 1..Len(q) : SameLetter(t[k + i], q[i])

\* C6: a search is answered 200 with exactly the stored contacts, in file
\* order, whose name or email holds the query as a case-insensitive substring:
\* all of them for the empty query, the empty list when none matches.
C6_Search ==
    req[1].op = "search" =>
        /\ resp[1].status = 200
        /\ resp[1].body.code = 200
        /\ resp[1].body.data =
               SelectSeq(Stored, LAMBDA c : \/ InsensitiveSubstring(req[1].query, c.name)
                                            \/ InsensitiveSubstring(req[1].query, c.email))
        /\ req[1].query = <<>> => resp[1].body.data = Stored

\* C6: an upper-case query matched some stored contacts and not others, one of
\* them by its email alone
C6_Witness ==
    /\ req[1].op = "search"
    /\ req[1].query = <<"A", "N">>
    /\ Len(resp[1].body.data) > 0
    /\ Len(resp[1].body.data) < Len(Stored)
    /\ \E i \in 1..Len(resp[1].body.data) :
           ~InsensitiveSubstring(req[1].query, resp[1].body.data[i].name)

\* C7: every response is the envelope of code, message and data, with code
\* the HTTP status.
C7_Envelope ==
    req[1].op # "none" =>
        /\ DOMAIN resp[1].body = {"code", "message", "data"}
        /\ resp[1].body.code = resp[1].status

\* both requests in flight are creates that have returned, and both were given
\* the same list by retrieve_contacts
BothCreatedFromOneSnapshot ==
    /\ \A p \in Proc : pc[p] = "done" /\ req[p].op = "create"
    /\ contacts[1] = contacts[2]

C10_Frame ==
    [][/\ (req'[1].op = "update" /\ resp'[1].status = 200) =>
              \A before \in {Stored}, after \in {StoredAfter} :
                  LET at == CHOOSE i \in 1..Len(before) :
                                /\ before[i].id = req'[1].id
                                /\ \A j \in 1..(i - 1) : before[j].id # req'[1].id
                  IN  /\ Len(after) = Len(before)
                      /\ after[at].id = before[at].id
                      /\ after[at].name = req'[1].contact.name
                      /\ after[at].phone = req'[1].contact.phone
                      /\ req'[1].contact.email # None =>
                             after[at].email = req'[1].contact.email
                      /\ \A j \in 1..Len(before) : j # at => after[j] = before[j]
       /\ req'[1].op \in {"get", "list", "search"} =>
              file' = file /\ exists' = exists]_vars

\* C10: an update changed the first of two records with its id and left the
\* second as it was
C10_Witness ==
    /\ req[1].op = "update"
    /\ resp[1].status = 200
    /\ \E i, j \in 1..Len(Stored) :
           /\ i < j
           /\ Stored[i].id = req[1].id /\ Stored[j].id = req[1].id
           /\ Stored[i].name = req[1].contact.name
           /\ Stored[j].name # req[1].contact.name

====
